---------------------------- MODULE Spec2Model ----------------------------
(***************************************************************************)
(* Batch download orchestrator of spot-audio (scripts/2-get_creatives.py). *)
(*                                                                         *)
(* The model follows main(): the job list is split into batches, each      *)
(* batch is submitted to its own thread pool and gets a background thread  *)
(* (delayed_batch_check_and_log) that waits for the launches or for the    *)
(* batch timeout, probes the artifacts, extends the shared lists and       *)
(* writes the summary file; main joins the threads, shuts the pools down,  *)
(* retries the failed jobs serially and prints the final summary.          *)
(*                                                                         *)
(* Time is abstracted to the order of events: the expiry of a batch's      *)
(* timeout and the end of the stagger sleep are events that may happen at  *)
(* any moment after they were armed, so every interleaving of the threads  *)
(* (including the one of a stagger delay of 0) is a behaviour.             *)
(* The external tool is the environment: a launched process may exit or    *)
(* never exit, and its artifact may appear at any moment after the launch  *)
(* (also after the process has exited) or never.                           *)
(*                                                                         *)
(* Spec is the orchestrator; FairSpec adds the fair scheduling of its      *)
(* threads; TimedSpec is Spec in runs that also record when each artifact  *)
(* appeared relative to the batch timeout and to the launch's return;      *)
(* PartSpec applies the split into batches to every list and batch size.   *)
(* LoadSpec is Spec on metadata files that may be unreadable and on job     *)
(* lists that may hold malformed descriptors;                              *)
(* ListSpec applies the summary's listing of the failed jobs to every      *)
(* list; FetchSpec is the metadata fetch (scripts/1-fetch_metadata.py)     *)
(* that writes the job list the orchestrator reads, over successive runs.  *)
(* StageSpec is the end of main() (copy to the Desktop, cleanup_folders)   *)
(* followed by the start of the upload; MasterSpec is the master pipeline  *)
(* (scripts/master_win.py) with the metadata fetch as its Phase 1;         *)
(* UploadSpec is the upload (scripts/3-upload_to_drive.py) with Google     *)
(* Drive as its environment; CleanSpec applies cleanup_temp_folder         *)
(* repeatedly to one folder.                                               *)
(***************************************************************************)
EXTENDS Integers, Sequences, FiniteSets, TLC

\* ------------------------------------------------------------------ bounds
\* Largest job list of the orchestrator model.
MaxJobs == 3
\* BATCH_SIZE of the orchestrator model (the program's value is 10).
BATCH_SIZE == 2
\* Largest job list and batch size of the partition model.
MaxPartLen == 25
MaxPartSize == 10
\* Longest list of failed jobs of the listing model.
MaxListed == 7
\* Stations, records of one station's snapshot, and the creative and aircheck
\* identifiers of the records, in the metadata fetch model.
NumStations == 2
MaxRecords == 2
MaxCreativeId == 2
MaxAircheckId == 2
\* Successive runs of the metadata fetch.
MaxFetchRuns == 2
\* Jobs whose files a temp folder may hold, in the staging and upload models.
MaxFiles == 2
\* Successive calls of cleanup_temp_folder on one folder.
MaxCleanups == 2

\* ----------------------------------------------------------------- helpers
\* The aircheck_id of the k-th job descriptor. The identifiers of a job list
\* are distinct (the job list holds one descriptor per aircheck); the code
\* only ever compares them for equality, so which ones they are is immaterial.
AircheckId(k) == 100 + k

Min(a, b) == IF a < b THEN a ELSE b

\* The elements of a sequence.
Range(s) == {s[k] : k \in 1..Len(s)}

\* How many times x occurs in s.
Count(s, x) == Cardinality({k \in 1..Len(s) : s[k] = x})

\* Python's s[lo:hi] for 0 <= lo <= hi (0-based, end exclusive, clipped).
Slice(s, lo, hi) ==
    IF lo >= Len(s) THEN <<>>
    ELSE [k \in 1..(Min(hi, Len(s)) - lo) |-> s[lo + k]]

\* Python's range(i, n, step) as a sequence.
RECURSIVE PyRange(_, _, _)
PyRange(i, n, step) ==
    IF i >= n THEN <<>> ELSE <<i>> \o PyRange(i + step, n, step)

\* [creatives[i:i + size] for i in range(0, total_count, size)], as mutated
\* by an off-by-one in the slice end.
BatchesShortSlice(list, size) ==
    LET starts == PyRange(0, Len(list), size)
    IN  [b \in 1..Len(starts) |-> Slice(list, starts[b], starts[b] + size - 1)]

\* The split into batches, as mutated by slices one job longer than the pool.
BatchesOversize(list, size) ==
    LET starts == PyRange(0, Len(list), size + 1)
    IN  [b \in 1..Len(starts) |-> Slice(list, starts[b], starts[b] + size + 1)]

\* batches = [creatives[i:i + BATCH_SIZE] for i in range(0, total_count, BATCH_SIZE)]
Batches(list, size) ==
    LET starts == PyRange(0, Len(list), size)
    IN  [b \in 1..Len(starts) |-> Slice(list, starts[b], starts[b] + size)]

\* The concatenation of a sequence of sequences.
RECURSIVE Concat(_)
Concat(ss) == IF ss = <<>> THEN <<>> ELSE Head(ss) \o Concat(Tail(ss))

\* All orders in which the elements of a finite set can be listed.
Orders(S) ==
    {f \in [1..Cardinality(S) -> S] : \A x \in S : \E k \in DOMAIN f : f[k] = x}

\* list.extend(items) as mutated by a lost update (the list is overwritten).
ExtendLost(list, items) == items

\* list.extend(items): one atomic append of all items (CPython runs
\* list.extend of a list under the interpreter lock).
Extend(list, items) == list \o items


\* ------------------------------------------------------------------- state
VARIABLES
    creatives,        \* data['creatives']: the job list, as aircheck_ids
    pc,               \* where main() is
    batch_num,        \* the batch main's loop is at (1-based)
    sub_k,            \* how many jobs of that batch have been submitted
    proc,             \* per job: the future of its main-pass launch
    art,              \* the jobs whose <aircheck_id>_pcm.wav exists
    wpc,              \* per batch: where its delayed_batch_check_and_log is
    timedOut,         \* per batch: BATCH_TIMEOUT has elapsed since its start
    successful,       \* per batch: check_batch_success's first result
    failed,           \* per batch: check_batch_success's second result
    all_successful,   \* the shared list of succeeded ids
    all_failed,       \* the shared list of failed ids
    summary_file,     \* the summary file, as a sequence of sections' marks
    wbuf,             \* per batch: what its open file object still buffers
    wpos,             \* the file position of the writer that opened with 'w'
    failed_creatives, \* main's list of the jobs to retry
    retry_i,          \* the retry loop's index into failed_creatives
    rproc,            \* per job: its retry launch
    retry_count,      \* per job: how many retry launches it got
    retry_successful, \* retry_failed_creatives' list of retry successes
    still_failed,     \* retry_failed_creatives' result
    failed_file,      \* the failed_ads JSON file: whether it exists, and its fields
    printed,          \* the count lines of the printed summary, once printed
    observe,          \* whether this run records the history below
    artBeforeTimeout, \* history: jobs whose artifact appeared before the timeout
    artBeforeReturn,  \* history: jobs whose artifact appeared before the launch returned
    p_list,           \* partition model: the job list
    p_size,           \* partition model: the batch size
    p_batches,        \* partition model: the batches
    p_done,           \* partition model: the split has been computed
    malformed,        \* the jobs whose descriptor create_ini_file cannot read
    readable,         \* whether the metadata file exists and is valid JSON
    ini_writes,       \* per job: how many times its .ini file was written
    launch_count,     \* per job: how many main-pass launches it got
    l_failed,         \* listing model: the still-failed jobs
    l_listed,         \* listing model: the jobs the summary lists
    l_done,           \* listing model: the summary has listed them
    f_pc,             \* metadata fetch: where 1-fetch_metadata's main() is
    f_station,        \* metadata fetch: how many stations were processed
    f_all,            \* metadata fetch: all_creatives, in insertion order
    f_master,         \* metadata fetch: the master file master_creative_ids.json
    f_new,            \* metadata fetch: new_creatives
    f_json,           \* metadata fetch: the job list file, once saved
    f_history,        \* metadata fetch: per ended run, the ids it found and saved
    t_exists,         \* staging: the temp folder C:\temp\ads_<range> exists
    t_files,          \* staging: the files the temp folder holds
    i_exists,         \* staging: the INI folder inis_<range> exists
    d_files,          \* staging: the jobs whose <id>.wav this run put in the Desktop folder
    s_pc,             \* staging: where the end of 2-get_creatives' main() is
    s_todo,           \* staging: the pcm_files copy_pcm_to_desktop still has to copy
    s_copied,         \* staging: copied_count
    s_deleted,        \* staging: the files cleanup_folders has deleted
    u_pc,             \* upload: where 3-upload_to_drive's main() is
    u_ret,            \* upload: the exit code of main(), once it has returned
    r_files,          \* upload: the names in the Drive folder ads/ads_<range>
    c_log,            \* upload: per call of cleanup_temp_folder, the folder before
                      \*         and after it and what it returned
    u_todo,           \* upload: the wav_files upload_folder_contents has yet to handle
    u_cur,            \* upload: the file upload_file was last called for (a set of <= 1)
    u_attempt,        \* upload: the turns of upload_file's loop taken for that file
    u_sent,           \* upload: the uploads of that file that were attempted
    u_last,           \* upload: how the last turn for that file ended
    u_result,         \* upload: what upload_file returned for that file
    success_count,    \* upload: upload_folder_contents' success_count
    failed_count,     \* upload: upload_folder_contents' failed_count
    skipped_count,    \* upload: upload_folder_contents' skipped_count
    u_cleaned,        \* upload: this run called cleanup_folders
    m_pc,             \* pipeline: where master_win's main() is
    m_exit1,          \* pipeline: the exit code of Phase 1 (-1 before it ended)
    m_reported,       \* pipeline: "Phase 1 completed: N new creatives found" was printed
    m_answer,         \* pipeline: the user's answer to the re-download question
    m_phase2,         \* pipeline: Phase 2 has been launched
    m_ret             \* pipeline: what main() returned, once it has returned

mainVars == <<creatives, pc, batch_num, sub_k, failed_creatives, retry_i,
              retry_successful, still_failed, failed_file, printed>>
poolVars == <<proc, rproc, retry_count, launch_count>>
envVars == <<art, timedOut, observe, artBeforeTimeout, artBeforeReturn>>
watchVars == <<wpc, successful, failed>>
listVars == <<all_successful, all_failed>>
fileVars == <<summary_file, wbuf, wpos, ini_writes>>
partVars == <<p_list, p_size, p_batches, p_done>>
listingVars == <<l_failed, l_listed, l_done>>
fetchVars == <<f_pc, f_station, f_all, f_master, f_new, f_json, f_history>>
folderVars == <<t_exists, t_files, i_exists>>
stageVars == <<d_files, s_pc, s_todo, s_copied, s_deleted>>
uploadFileVars == <<u_cur, u_attempt, u_sent, u_last, u_result>>
uploadCountVars == <<success_count, failed_count, skipped_count>>
uploadVars == <<u_pc, u_ret, r_files, c_log, u_todo, uploadFileVars,
                uploadCountVars, u_cleaned>>
masterVars == <<m_pc, m_exit1, m_reported, m_answer, m_phase2, m_ret>>
\* The variables of the models of what surrounds the download: the staging at
\* the end of Phase 2, the upload of Phase 3 and the master pipeline.
phaseVars == <<folderVars, stageVars, uploadVars, masterVars>>
\* What no step of a run of the orchestrator changes: its input's defects and
\* the variables of the other models.
sideVars == <<malformed, readable, partVars, listingVars, fetchVars, phaseVars>>
vars == <<mainVars, poolVars, envVars, watchVars, listVars, fileVars, sideVars>>
\* What no step of the staging and upload models changes.
downloadVars == <<mainVars, poolVars, envVars, watchVars, listVars, fileVars,
                  malformed, readable, partVars, listingVars, fetchVars,
                  masterVars>>

AllIds == {AircheckId(k) : k \in 1..MaxJobs}
MaxBatches == (MaxJobs + BATCH_SIZE - 1) \div BATCH_SIZE
BatchNums == 1..MaxBatches

\* total_count, batches and total_batches of main().
total_count == Len(creatives)
batches == Batches(creatives, BATCH_SIZE)
total_batches == Len(batches)

\* The batch a job of the list belongs to.
BatchOf(id) == CHOOSE b \in 1..total_batches : id \in Range(batches[b])

Returned(id) == proc[id] \in {"done_id", "done_none"}

\* The marks a batch section leaves in the summary file.
HeaderMark == <<"HEADER", 0>>
BatchMark(b) == <<"BATCH", b>>
EndMark(b) == <<"END", b>>

\* No failed_ads file has been written.
NoFile == [exists |-> FALSE, failed_count |-> 0, creatives |-> <<>>]

\* ----------------------------------------------------------------- initial
MainInit(n) ==
    /\ creatives = [k \in 1..n |-> AircheckId(k)]
    /\ pc = "load"
    /\ batch_num = 0
    /\ sub_k = 0
    /\ ini_writes = [id \in AllIds |-> 0]
    /\ launch_count = [id \in AllIds |-> 0]
    /\ proc = [id \in AllIds |-> "idle"]
    /\ rproc = [id \in AllIds |-> "idle"]
    /\ retry_count = [id \in AllIds |-> 0]
    /\ art = {}
    /\ artBeforeTimeout = {}
    /\ artBeforeReturn = {}
    /\ wpc = [b \in BatchNums |-> "none"]
    /\ timedOut = [b \in BatchNums |-> FALSE]
    /\ successful = [b \in BatchNums |-> <<>>]
    /\ failed = [b \in BatchNums |-> <<>>]
    /\ all_successful = <<>>
    /\ all_failed = <<>>
    /\ summary_file = <<>>
    /\ wbuf = [b \in BatchNums |-> <<>>]
    /\ wpos = 0
    /\ failed_creatives = <<>>
    /\ retry_i = 0
    /\ retry_successful = <<>>
    /\ still_failed = <<>>
    /\ failed_file = NoFile
    /\ printed = <<>>

PartIdle ==
    /\ p_list = <<>>
    /\ p_size = 1
    /\ p_batches = <<>>
    /\ p_done = FALSE

ListIdle ==
    /\ l_failed = <<>>
    /\ l_listed = <<>>
    /\ l_done = FALSE

\* No job list file has been saved.
NoJson == [exists |-> FALSE, creatives |-> <<>>]

\* No master file has been written.
NoMaster == [exists |-> FALSE, valid |-> TRUE, creative_ids |-> <<>>]

FetchIdle ==
    /\ f_pc = "fetch"
    /\ f_station = 0
    /\ f_all = <<>>
    /\ f_master = NoMaster
    /\ f_new = <<>>
    /\ f_json = NoJson
    /\ f_history = <<>>

\* No temp folder and no INI folder.
FolderIdle ==
    /\ t_exists = FALSE
    /\ t_files = {}
    /\ i_exists = FALSE

StageIdle ==
    /\ d_files = {}
    /\ s_pc = "off"
    /\ s_todo = {}
    /\ s_copied = 0
    /\ s_deleted = {}

\* What a run of 3-upload_to_drive starts from.
UploadRunStart ==
    /\ u_ret = 0
    /\ u_todo = {}
    /\ u_cur = {}
    /\ u_attempt = 0
    /\ u_sent = 0
    /\ u_last = "none"
    /\ u_result = "none"
    /\ success_count = 0
    /\ failed_count = 0
    /\ skipped_count = 0
    /\ u_cleaned = FALSE

UploadIdle ==
    /\ u_pc = "off"
    /\ r_files = {}
    /\ c_log = <<>>
    /\ UploadRunStart

MasterIdle ==
    /\ m_pc = "off"
    /\ m_exit1 = -1
    /\ m_reported = FALSE
    /\ m_answer = "none"
    /\ m_phase2 = FALSE
    /\ m_ret = 0

PhasesIdle ==
    /\ FolderIdle
    /\ StageIdle
    /\ UploadIdle
    /\ MasterIdle

Init ==
    /\ \E n \in 0..MaxJobs : MainInit(n)
    /\ PhasesIdle
    /\ observe = FALSE
    /\ malformed = {}
    /\ readable = TRUE
    /\ PartIdle
    /\ ListIdle
    /\ FetchIdle

\* The same program, in runs that record when the artifacts appeared.
TimedInit ==
    /\ \E n \in 0..MaxJobs : MainInit(n)
    /\ PhasesIdle
    /\ observe = TRUE
    /\ malformed = {}
    /\ readable = TRUE
    /\ PartIdle
    /\ ListIdle
    /\ FetchIdle

\* The same program, on metadata files that may be missing or not valid JSON
\* and on job lists of which any descriptors are malformed: a required key is
\* missing, or a time is null or not in either format.
LoadInit ==
    /\ \E n \in 0..MaxJobs : MainInit(n)
    /\ PhasesIdle
    /\ observe = FALSE
    /\ malformed \in SUBSET Range(creatives)
    /\ readable \in BOOLEAN
    /\ PartIdle
    /\ ListIdle
    /\ FetchIdle

\* -------------------------------------------------------- the main thread
\* The step of main() that reads the job list, as mutated by going on after a
\* failed read.
ReadJobListAnyway ==
    /\ pc = "load"
    /\ pc' = "ini"
    /\ UNCHANGED <<creatives, batch_num, sub_k, failed_creatives, retry_i,
                   retry_successful, still_failed, failed_file, printed>>
    /\ UNCHANGED <<poolVars, envVars, watchVars, listVars, fileVars, sideVars>>

\* main(): with open(json_path) as f: data = json.load(f). FileNotFoundError
\* and json.JSONDecodeError are caught at the end of main, which prints the
\* error and returns.
ReadJobList ==
    /\ pc = "load"
    /\ pc' = IF readable THEN "ini" ELSE "error"
    /\ UNCHANGED <<creatives, batch_num, sub_k, failed_creatives, retry_i,
                   retry_successful, still_failed, failed_file, printed>>
    /\ UNCHANGED <<poolVars, envVars, watchVars, listVars, fileVars, sideVars>>

\* The jobs whose .ini file the loop over creatives writes: all of them, or
\* those before the first descriptor on which create_ini_file raises.
IniWritten ==
    LET bad == {k \in 1..Len(creatives) : creatives[k] \in malformed}
        stop == IF bad = {} THEN Len(creatives) + 1
                            ELSE CHOOSE k \in bad : \A j \in bad : k <= j
    IN  {creatives[k] : k \in 1..(stop - 1)}

\* main(), "Create all .ini files first", then the split into batches.
\* create_ini_file reads creative["aircheck_id"], ["station_id"] and converts
\* the two times: on a malformed descriptor it raises (KeyError, TypeError or
\* ValueError), main's except Exception prints the traceback and main returns.
CreateIniFiles ==
    /\ pc = "ini"
    /\ IF malformed # {}
         THEN pc' = "aborted" /\ UNCHANGED batch_num
         ELSE IF total_batches = 0
                THEN pc' = "join" /\ UNCHANGED batch_num
                ELSE pc' = "submit" /\ batch_num' = 1
    /\ sub_k' = 0
    /\ UNCHANGED <<creatives, failed_creatives, retry_i, retry_successful,
                   still_failed, failed_file, printed>>
    /\ ini_writes' = [id \in AllIds |->
                         IF id \in IniWritten THEN ini_writes[id] + 1 ELSE ini_writes[id]]
    /\ UNCHANGED <<summary_file, wbuf, wpos>>
    /\ UNCHANGED <<poolVars, envVars, watchVars, listVars, sideVars>>

\* process_batch's submissions, as mutated by going through the batch backwards.
SubmitReversed ==
    /\ pc = "submit"
    /\ sub_k < Len(batches[batch_num])
    /\ LET id == batches[batch_num][Len(batches[batch_num]) - sub_k]
       IN  /\ \E r \in {"running", "done_none"} : proc' = [proc EXCEPT ![id] = r]
           /\ launch_count' = [launch_count EXCEPT ![id] = @ + 1]
    /\ sub_k' = sub_k + 1
    /\ UNCHANGED <<creatives, pc, batch_num, failed_creatives, retry_i,
                   retry_successful, still_failed, failed_file, printed>>
    /\ UNCHANGED <<rproc, retry_count>>
    /\ UNCHANGED <<envVars, watchVars, listVars, fileVars, sideVars>>

\* process_batch: executor.submit(run_single_getmedia, aircheck_id, ini_folder)
\* for the next job of the batch, in list order. The pool has a thread for
\* every job of a batch, so the launch starts at once: subprocess.run either
\* starts Getmedia.exe (the call is then in flight until the process exits) or
\* raises, and run_single_getmedia returns None.
Submit ==
    /\ pc = "submit"
    /\ sub_k < Len(batches[batch_num])
    /\ LET id == batches[batch_num][sub_k + 1]
       IN  /\ \E r \in {"running", "done_none"} : proc' = [proc EXCEPT ![id] = r]
           /\ launch_count' = [launch_count EXCEPT ![id] = @ + 1]
    /\ sub_k' = sub_k + 1
    /\ UNCHANGED <<creatives, pc, batch_num, failed_creatives, retry_i,
                   retry_successful, still_failed, failed_file, printed>>
    /\ UNCHANGED <<rproc, retry_count>>
    /\ UNCHANGED <<envVars, watchVars, listVars, fileVars, sideVars>>

\* The end of process_batch, as mutated by a loop that never sleeps.
StartWatcherNoSleep ==
    /\ pc = "submit"
    /\ sub_k = Len(batches[batch_num])
    /\ wpc' = [wpc EXCEPT ![batch_num] = "wait"]
    /\ IF batch_num < total_batches
         THEN pc' = "submit" /\ batch_num' = batch_num + 1 /\ sub_k' = 0
         ELSE pc' = "join" /\ UNCHANGED <<batch_num, sub_k>>
    /\ UNCHANGED <<creatives, failed_creatives, retry_i,
                   retry_successful, still_failed, failed_file, printed>>
    /\ UNCHANGED <<successful, failed>>
    /\ UNCHANGED <<poolVars, envVars, listVars, fileVars, sideVars>>

\* process_batch: check_thread.start(), and main's test batch_num < total_batches.
StartWatcher ==
    /\ pc = "submit"
    /\ sub_k = Len(batches[batch_num])
    /\ wpc' = [wpc EXCEPT ![batch_num] = "wait"]
    /\ pc' = IF batch_num < total_batches THEN "sleep" ELSE "join"
    /\ UNCHANGED <<creatives, batch_num, sub_k, failed_creatives, retry_i,
                   retry_successful, still_failed, failed_file, printed>>
    /\ UNCHANGED <<successful, failed>>
    /\ UNCHANGED <<poolVars, envVars, listVars, fileVars, sideVars>>

\* The loop of main, as mutated by waiting for the batch's watcher to end
\* before the next batch is started.
StaggerSleepAfterBatch ==
    /\ pc = "sleep"
    /\ wpc[batch_num] = "done"
    /\ pc' = "submit"
    /\ batch_num' = batch_num + 1
    /\ sub_k' = 0
    /\ UNCHANGED <<creatives, failed_creatives, retry_i, retry_successful,
                   still_failed, failed_file, printed>>
    /\ UNCHANGED <<poolVars, envVars, watchVars, listVars, fileVars, sideVars>>

\* time.sleep(BATCH_START_DELAY) returns and the loop moves to the next batch.
StaggerSleep ==
    /\ pc = "sleep"
    /\ pc' = "submit"
    /\ batch_num' = batch_num + 1
    /\ sub_k' = 0
    /\ UNCHANGED <<creatives, failed_creatives, retry_i, retry_successful,
                   still_failed, failed_file, printed>>
    /\ UNCHANGED <<poolVars, envVars, watchVars, listVars, fileVars, sideVars>>

\* The join of the watchers, as mutated by not joining them.
JoinAllNoWait ==
    /\ pc = "join"
    /\ pc' = "shutdown"
    /\ UNCHANGED <<creatives, batch_num, sub_k, failed_creatives, retry_i,
                   retry_successful, still_failed, failed_file, printed>>
    /\ UNCHANGED <<poolVars, envVars, watchVars, listVars, fileVars, sideVars>>

\* for thread in active_threads: thread.join()
JoinAll ==
    /\ pc = "join"
    /\ \A b \in 1..total_batches : wpc[b] = "done"
    /\ pc' = "shutdown"
    /\ UNCHANGED <<creatives, batch_num, sub_k, failed_creatives, retry_i,
                   retry_successful, still_failed, failed_file, printed>>
    /\ UNCHANGED <<poolVars, envVars, watchVars, listVars, fileVars, sideVars>>

\* The shutdown of the pools, as mutated to shutdown(wait=False).
ShutdownNoWait ==
    /\ pc = "shutdown"
    /\ pc' = "collect"
    /\ UNCHANGED <<creatives, batch_num, sub_k, failed_creatives, retry_i,
                   retry_successful, still_failed, failed_file, printed>>
    /\ UNCHANGED <<poolVars, envVars, watchVars, listVars, fileVars, sideVars>>

\* The shutdown of the pools, as mutated by shutting down the first pool only.
ShutdownFirstPoolOnly ==
    /\ pc = "shutdown"
    /\ \A id \in Range(creatives) : BatchOf(id) = 1 => Returned(id)
    /\ pc' = "collect"
    /\ UNCHANGED <<creatives, batch_num, sub_k, failed_creatives, retry_i,
                   retry_successful, still_failed, failed_file, printed>>
    /\ UNCHANGED <<poolVars, envVars, watchVars, listVars, fileVars, sideVars>>

\* for executor in active_executors: executor.shutdown(wait=True)
ShutdownAll ==
    /\ pc = "shutdown"
    /\ \A id \in Range(creatives) : Returned(id)
    /\ pc' = "collect"
    /\ UNCHANGED <<creatives, batch_num, sub_k, failed_creatives, retry_i,
                   retry_successful, still_failed, failed_file, printed>>
    /\ UNCHANGED <<poolVars, envVars, watchVars, listVars, fileVars, sideVars>>

\* The jobs to retry, as mutated by retrying every job of the list.
FailedCreativesAll == creatives

\* The jobs to retry, as mutated by leaving out the jobs whose launch raised.
FailedCreativesStarted ==
    SelectSeq(creatives, LAMBDA c : c \in Range(all_failed) /\ proc[c] # "done_none")

\* failed_creatives = [creative for creative in creatives
\*                     if creative["aircheck_id"] in all_failed]
FailedCreatives == SelectSeq(creatives, LAMBDA c : c \in Range(all_failed))

\* "Get failed creatives with full details" and the branch on failed_creatives.
Collect ==
    /\ pc = "collect"
    /\ failed_creatives' = FailedCreatives
    /\ IF failed_creatives' # <<>>
         THEN pc' = "retry_launch" /\ retry_i' = 1
         ELSE pc' = "summary" /\ UNCHANGED retry_i
    /\ still_failed' = <<>>
    /\ retry_successful' = <<>>
    /\ UNCHANGED <<creatives, batch_num, sub_k, failed_file, printed>>
    /\ UNCHANGED <<poolVars, envVars, watchVars, listVars, fileVars, sideVars>>

\* The retry launch, as mutated by writing the job's .ini file again first.
RetryLaunchRewritesIni ==
    /\ pc = "retry_launch"
    /\ LET id == failed_creatives[retry_i]
       IN  /\ \E r \in {"running", "done_none"} : rproc' = [rproc EXCEPT ![id] = r]
           /\ retry_count' = [retry_count EXCEPT ![id] = @ + 1]
           /\ ini_writes' = [ini_writes EXCEPT ![id] = @ + 1]
    /\ pc' = "retry_run"
    /\ UNCHANGED <<creatives, batch_num, sub_k, failed_creatives, retry_i,
                   retry_successful, still_failed, failed_file, printed>>
    /\ UNCHANGED <<proc, launch_count>>
    /\ UNCHANGED <<summary_file, wbuf, wpos>>
    /\ UNCHANGED <<envVars, watchVars, listVars, sideVars>>

\* retry_failed_creatives: result = run_single_getmedia(aircheck_id, ini_folder)
\* is called; the call blocks until Getmedia.exe exits, or returns None at once.
RetryLaunch ==
    /\ pc = "retry_launch"
    /\ LET id == failed_creatives[retry_i]
       IN  /\ \E r \in {"running", "done_none"} : rproc' = [rproc EXCEPT ![id] = r]
           /\ retry_count' = [retry_count EXCEPT ![id] = @ + 1]
    /\ pc' = "retry_run"
    /\ UNCHANGED <<creatives, batch_num, sub_k, failed_creatives, retry_i,
                   retry_successful, still_failed, failed_file, printed>>
    /\ UNCHANGED <<proc, launch_count>>
    /\ UNCHANGED <<envVars, watchVars, listVars, fileVars, sideVars>>

\* The wait of the retry, as mutated by a launch that is not waited for.
RetrySleepNoWait ==
    /\ pc = "retry_run"
    /\ pc' = "retry_probe"
    /\ UNCHANGED <<creatives, batch_num, sub_k, failed_creatives, retry_i,
                   retry_successful, still_failed, failed_file, printed>>
    /\ UNCHANGED <<poolVars, envVars, watchVars, listVars, fileVars, sideVars>>

\* retry_failed_creatives: the launch call has returned and time.sleep(2) is over.
RetrySleep ==
    /\ pc = "retry_run"
    /\ rproc[failed_creatives[retry_i]] \in {"done_id", "done_none"}
    /\ pc' = "retry_probe"
    /\ UNCHANGED <<creatives, batch_num, sub_k, failed_creatives, retry_i,
                   retry_successful, still_failed, failed_file, printed>>
    /\ UNCHANGED <<poolVars, envVars, watchVars, listVars, fileVars, sideVars>>

\* The retry's check, as mutated by trusting result, the value the launch returned.
RetryProbeByResult(id) == rproc[id] = "done_id"

\* retry_failed_creatives: os.path.exists(<target_folder>/<aircheck_id>_pcm.wav)
RetryProbeArtifact(id) == id \in art

\* The retry's probe, as mutated by putting a still-failed job first.
RetryProbePrepends ==
    /\ pc = "retry_probe"
    /\ LET id == failed_creatives[retry_i]
       IN  IF RetryProbeArtifact(id)
             THEN /\ retry_successful' = Append(retry_successful, id)
                  /\ UNCHANGED still_failed
             ELSE /\ still_failed' = <<id>> \o still_failed
                  /\ UNCHANGED retry_successful
    /\ IF retry_i < Len(failed_creatives)
         THEN pc' = "retry_launch" /\ retry_i' = retry_i + 1
         ELSE pc' = "merge" /\ UNCHANGED retry_i
    /\ UNCHANGED <<creatives, batch_num, sub_k, failed_creatives, failed_file, printed>>
    /\ UNCHANGED <<poolVars, envVars, watchVars, listVars, fileVars, sideVars>>

\* retry_failed_creatives: the probe and the two appends.
RetryProbe ==
    /\ pc = "retry_probe"
    /\ LET id == failed_creatives[retry_i]
       IN  IF RetryProbeArtifact(id)
             THEN /\ retry_successful' = Append(retry_successful, id)
                  /\ UNCHANGED still_failed
             ELSE /\ still_failed' = Append(still_failed, id)
                  /\ UNCHANGED retry_successful
    /\ IF retry_i < Len(failed_creatives)
         THEN pc' = "retry_launch" /\ retry_i' = retry_i + 1
         ELSE pc' = "merge" /\ UNCHANGED retry_i
    /\ UNCHANGED <<creatives, batch_num, sub_k, failed_creatives, failed_file, printed>>
    /\ UNCHANGED <<poolVars, envVars, watchVars, listVars, fileVars, sideVars>>

\* The ids added after the retry, as mutated by adding every retried id.
RetrySuccessfulIdsAll == Range(failed_creatives)

\* retry_successful_ids = set(failed ids) - set(still-failed ids)
RetrySuccessfulIds == Range(failed_creatives) \ Range(still_failed)

\* The failed_ads file, as mutated by saving every job the main pass failed.
SaveMainFailed(list) ==
    [exists |-> TRUE, failed_count |-> Len(failed_creatives),
     creatives |-> failed_creatives]

\* save_failed_creatives(failed_creatives, datetime_range_str): the file's
\* failed_count and creatives.
SaveFailedCreatives(list) ==
    [exists |-> TRUE, failed_count |-> Len(list), creatives |-> list]

\* main() after the retry, as mutated by not adding the retry successes.
MergeNoRetrySuccesses ==
    /\ pc = "merge"
    /\ failed_file' = IF still_failed # <<>> THEN SaveFailedCreatives(still_failed)
                                           ELSE failed_file
    /\ pc' = "summary"
    /\ UNCHANGED <<all_successful, all_failed>>
    /\ UNCHANGED <<creatives, batch_num, sub_k, failed_creatives, retry_i,
                   retry_successful, still_failed, printed>>
    /\ UNCHANGED <<poolVars, envVars, watchVars, fileVars, sideVars>>

\* main() after retry_failed_creatives returned: all_successful.extend(
\* list(retry_successful_ids)) in the set's iteration order, and
\* save_failed_creatives if still_failed is not empty.
Merge ==
    /\ pc = "merge"
    /\ \E order \in Orders(RetrySuccessfulIds) :
           all_successful' = Extend(all_successful, order)
    /\ failed_file' = IF still_failed # <<>> THEN SaveFailedCreatives(still_failed)
                                           ELSE failed_file
    /\ pc' = "summary"
    /\ UNCHANGED all_failed
    /\ UNCHANGED <<creatives, batch_num, sub_k, failed_creatives, retry_i,
                   retry_successful, still_failed, printed>>
    /\ UNCHANGED <<poolVars, envVars, watchVars, fileVars, sideVars>>

\* for failed in still_failed[:5]: print(aircheck_id | creative_name)
FailedLines(list) == Slice(list, 0, 5)

\* "... and N more", printed if len(still_failed) > 5
MoreLine(list) == IF Len(list) > 5 THEN Len(list) - 5 ELSE 0

\* "Print summary": total, successfully downloaded, failed after retry, and
\* the lines under "Failed creatives:".
PrintSummary ==
    /\ pc = "summary"
    /\ printed' = <<[total |-> total_count,
                     downloaded |-> Len(all_successful),
                     failed_after_retry |-> Len(still_failed),
                     listed |-> FailedLines(still_failed),
                     more |-> MoreLine(still_failed)]>>
    /\ pc' = "done"
    /\ UNCHANGED <<creatives, batch_num, sub_k, failed_creatives, retry_i,
                   retry_successful, still_failed, failed_file>>
    /\ UNCHANGED <<poolVars, envVars, watchVars, listVars, fileVars, sideVars>>

\* ------------------------------------------ delayed_batch_check_and_log(b)
\* The watcher's wait, as mutated by a wait without timeout.
WaitOverAllReturned(b) == \A id \in Range(batches[b]) : Returned(id)

\* concurrent.futures.wait(futures, timeout=BATCH_TIMEOUT) returns when every
\* future of the batch is done or the timeout has elapsed.
WaitOver(b) == (\A id \in Range(batches[b]) : Returned(id)) \/ timedOut[b]

WaitReturns(b) ==
    /\ wpc[b] = "wait"
    /\ WaitOver(b)
    /\ wpc' = [wpc EXCEPT ![b] = "probe"]
    /\ UNCHANGED <<successful, failed>>
    /\ UNCHANGED <<mainVars, poolVars, envVars, listVars, fileVars, sideVars>>

\* check_batch_success, as mutated by trusting the launch's return value.
ProbeByReturnValue(id) == proc[id] = "done_id"

\* check_batch_success: os.path.exists(<target_folder>/<aircheck_id>_pcm.wav)
ProbeArtifact(id) == id \in art

\* check_batch_success(batch_aircheck_ids, target_folder): the ids of the
\* batch, in order, split by the probe. The probes of a batch are one step.
Probe(b) ==
    /\ wpc[b] = "probe"
    /\ successful' = [successful EXCEPT
                        ![b] = SelectSeq(batches[b], LAMBDA id : ProbeArtifact(id))]
    /\ failed' = [failed EXCEPT
                        ![b] = SelectSeq(batches[b], LAMBDA id : ~ProbeArtifact(id))]
    /\ wpc' = [wpc EXCEPT ![b] = "extend_successful"]
    /\ UNCHANGED <<mainVars, poolVars, envVars, listVars, fileVars, sideVars>>

\* all_successful.extend(successful)
ExtendSuccessful(b) ==
    /\ wpc[b] = "extend_successful"
    /\ all_successful' = Extend(all_successful, successful[b])
    /\ wpc' = [wpc EXCEPT ![b] = "extend_failed"]
    /\ UNCHANGED <<all_failed, successful, failed>>
    /\ UNCHANGED <<mainVars, poolVars, envVars, fileVars, sideVars>>

\* The watcher's second extend, as mutated by recording the whole batch failed.
ExtendFailedAll(b) ==
    /\ wpc[b] = "extend_failed"
    /\ all_failed' = Extend(all_failed, batches[b])
    /\ wpc' = [wpc EXCEPT ![b] = "open"]
    /\ UNCHANGED <<all_successful, successful, failed>>
    /\ UNCHANGED <<mainVars, poolVars, envVars, fileVars, sideVars>>

\* all_failed.extend(failed)
ExtendFailed(b) ==
    /\ wpc[b] = "extend_failed"
    /\ all_failed' = Extend(all_failed, failed[b])
    /\ wpc' = [wpc EXCEPT ![b] = "open"]
    /\ UNCHANGED <<all_successful, successful, failed>>
    /\ UNCHANGED <<mainVars, poolVars, envVars, fileVars, sideVars>>

\* is_first = batch_num == 1
IsFirst(b) == b = 1

\* mode = 'w' if is_first_batch else 'a'
OpenMode(b) == IF IsFirst(b) THEN "w" ELSE "a"

\* What update_summary_file writes into its file object: the header for the
\* first batch, then the section of the batch from "BATCH n RESULTS:" to the
\* closing line of '='.
SectionMarks(b) ==
    (IF IsFirst(b) THEN <<HeaderMark>> ELSE <<>>) \o <<BatchMark(b), EndMark(b)>>

\* A write of marks at position pos of the file (a file opened with 'w'
\* writes at its own position, over what is there).
WriteAt(file, pos, marks) ==
    [k \in 1..(IF Len(file) > pos + Len(marks) THEN Len(file) ELSE pos + Len(marks)) |->
        IF k > pos /\ k <= pos + Len(marks) THEN marks[k - pos] ELSE file[k]]

\* The file after writer b's buffer is flushed: at the end of the file in
\* mode 'a', at the writer's position in mode 'w'.
Flushed(b, marks) ==
    IF OpenMode(b) = "w" THEN WriteAt(summary_file, wpos, marks)
                         ELSE summary_file \o marks

\* update_summary_file: open(summary_file, mode), which truncates in mode 'w',
\* and the writes of the section into the file object's buffer.
OpenSummary(b) ==
    /\ wpc[b] = "open"
    /\ IF OpenMode(b) = "w"
         THEN summary_file' = <<>> /\ wpos' = 0
         ELSE UNCHANGED <<summary_file, wpos>>
    /\ wbuf' = [wbuf EXCEPT ![b] = SectionMarks(b)]
    /\ wpc' = [wpc EXCEPT ![b] = "write"]
    /\ UNCHANGED <<successful, failed>>
    /\ UNCHANGED <<mainVars, poolVars, envVars, listVars, sideVars>>
    /\ UNCHANGED ini_writes

\* update_summary_file: the buffer fills before the section is complete (the
\* .out texts are of any length) and all but the section's last line reaches the file.
FlushPart(b) ==
    /\ wpc[b] = "write"
    /\ Len(wbuf[b]) > 1
    /\ LET marks == SubSeq(wbuf[b], 1, Len(wbuf[b]) - 1)
       IN  /\ summary_file' = Flushed(b, marks)
           /\ wpos' = IF OpenMode(b) = "w" THEN wpos + Len(marks) ELSE wpos
    /\ wbuf' = [wbuf EXCEPT ![b] = <<wbuf[b][Len(wbuf[b])]>>]
    /\ UNCHANGED <<watchVars, mainVars, poolVars, envVars, listVars, sideVars>>
    /\ UNCHANGED ini_writes

\* update_summary_file: the with block ends, the rest of the buffer is written
\* and the file is closed; the thread ends.
CloseSummary(b) ==
    /\ wpc[b] = "write"
    /\ summary_file' = Flushed(b, wbuf[b])
    /\ wpos' = IF OpenMode(b) = "w" THEN wpos + Len(wbuf[b]) ELSE wpos
    /\ wbuf' = [wbuf EXCEPT ![b] = <<>>]
    /\ wpc' = [wpc EXCEPT ![b] = "done"]
    /\ UNCHANGED <<successful, failed>>
    /\ UNCHANGED <<mainVars, poolVars, envVars, listVars, sideVars>>
    /\ UNCHANGED ini_writes

\* ---------------------------------------------------------- the environment
\* Getmedia.exe of a main-pass launch exits: subprocess.run returns and
\* run_single_getmedia returns the aircheck_id.
ProcessExits(id) ==
    /\ proc[id] = "running"
    /\ proc' = [proc EXCEPT ![id] = "done_id"]
    /\ UNCHANGED <<rproc, retry_count, launch_count>>
    /\ UNCHANGED <<mainVars, envVars, watchVars, listVars, fileVars, sideVars>>

\* Getmedia.exe of a retry launch exits.
RetryProcessExits(id) ==
    /\ rproc[id] = "running"
    /\ rproc' = [rproc EXCEPT ![id] = "done_id"]
    /\ UNCHANGED <<proc, retry_count, launch_count>>
    /\ UNCHANGED <<mainVars, envVars, watchVars, listVars, fileVars, sideVars>>

\* The external tool writes <aircheck_id>_pcm.wav: at any moment after one of
\* the job's processes was started, until the run ends.
ArtifactAppears(id) ==
    /\ pc # "done"
    /\ id \in Range(creatives) \ art
    /\ proc[id] \in {"running", "done_id"} \/ rproc[id] \in {"running", "done_id"}
    /\ art' = art \cup {id}
    /\ artBeforeTimeout' =
           IF observe /\ ~timedOut[BatchOf(id)]
             THEN artBeforeTimeout \cup {id} ELSE artBeforeTimeout
    /\ artBeforeReturn' =
           IF observe /\ proc[id] = "running"
             THEN artBeforeReturn \cup {id} ELSE artBeforeReturn
    /\ UNCHANGED <<timedOut, observe>>
    /\ UNCHANGED <<mainVars, poolVars, watchVars, listVars, fileVars, sideVars>>

\* BATCH_TIMEOUT seconds have passed since batch b's watcher began to wait.
\* The program sees it only inside concurrent.futures.wait; a run that
\* records the history also notes it after the wait has returned.
TimeoutElapses(b) ==
    /\ pc # "done"
    /\ wpc[b] = "wait" \/ (observe /\ wpc[b] # "none")
    /\ ~timedOut[b]
    /\ timedOut' = [timedOut EXCEPT ![b] = TRUE]
    /\ UNCHANGED <<art, observe, artBeforeTimeout, artBeforeReturn>>
    /\ UNCHANGED <<mainVars, poolVars, watchVars, listVars, fileVars, sideVars>>

\* ------------------------------------------------------- the specification
MainStep ==
    \/ ReadJobList
    \/ CreateIniFiles
    \/ Submit
    \/ StartWatcher
    \/ StaggerSleep
    \/ JoinAll
    \/ ShutdownAll
    \/ Collect
    \/ RetryLaunch
    \/ RetrySleep
    \/ RetryProbe
    \/ Merge
    \/ PrintSummary

WatcherStep(b) ==
    \/ WaitReturns(b)
    \/ Probe(b)
    \/ ExtendSuccessful(b)
    \/ ExtendFailed(b)
    \/ OpenSummary(b)
    \/ FlushPart(b)
    \/ CloseSummary(b)

EnvStep ==
    \/ \E id \in AllIds : ProcessExits(id)
    \/ \E id \in AllIds : RetryProcessExits(id)
    \/ \E id \in AllIds : ArtifactAppears(id)
    \/ \E b \in BatchNums : TimeoutElapses(b)

Next ==
    \/ MainStep
    \/ \E b \in BatchNums : WatcherStep(b)
    \/ EnvStep

Spec == Init /\ [][Next]_vars

\* Spec with the history of the artifacts recorded.
TimedSpec == TimedInit /\ [][Next]_vars

\* The threads of the program are scheduled fairly; the external tool owes
\* nothing: a process may never exit and an artifact may never appear.
FairSpec ==
    /\ Spec
    /\ WF_vars(MainStep)
    /\ \A b \in BatchNums : WF_vars(WatcherStep(b))
    /\ \A b \in BatchNums : WF_vars(TimeoutElapses(b))

\* Spec on job lists with malformed descriptors.
LoadSpec == LoadInit /\ [][Next]_vars

\* ----------------------------------------------------- the partition model
\* The split of a job list into batches as a function of the list and of the
\* batch size: the inputs are drawn in the initial state, one step applies it.
PartInit ==
    /\ MainInit(0)
    /\ PhasesIdle
    /\ observe = FALSE
    /\ malformed = {}
    /\ readable = TRUE
    /\ ListIdle
    /\ FetchIdle
    /\ \E n \in 0..MaxPartLen : p_list = [k \in 1..n |-> AircheckId(k)]
    /\ p_size \in 1..MaxPartSize
    /\ p_batches = <<>>
    /\ p_done = FALSE

Partition ==
    /\ ~p_done
    /\ p_batches' = Batches(p_list, p_size)
    /\ p_done' = TRUE
    /\ UNCHANGED <<p_list, p_size>>
    /\ UNCHANGED <<mainVars, poolVars, envVars, watchVars, listVars, fileVars>>
    /\ UNCHANGED <<malformed, readable, listingVars, fetchVars, phaseVars>>

PartNext == Partition

PartSpec == PartInit /\ [][PartNext]_vars

\* ------------------------------------------------------- the listing model
\* The lines the final summary prints under "Failed creatives:", as a function
\* of still_failed: the list is drawn in the initial state, one step prints.
ListInit ==
    /\ MainInit(0)
    /\ PhasesIdle
    /\ observe = FALSE
    /\ malformed = {}
    /\ readable = TRUE
    /\ PartIdle
    /\ FetchIdle
    /\ \E S \in SUBSET (1..MaxListed) :
           l_failed = SelectSeq([k \in 1..MaxListed |-> AircheckId(k)],
                                LAMBDA id : id - AircheckId(0) \in S)
    /\ l_listed = <<>>
    /\ l_done = FALSE

ListFailed ==
    /\ ~l_done
    /\ l_listed' = FailedLines(l_failed)
    /\ l_done' = TRUE
    /\ UNCHANGED l_failed
    /\ UNCHANGED <<mainVars, poolVars, envVars, watchVars, listVars, fileVars>>
    /\ UNCHANGED <<malformed, readable, partVars, fetchVars, phaseVars>>

ListNext == ListFailed

ListSpec == ListInit /\ [][ListNext]_vars

\* ------------------------------------------ the metadata fetch model
\* 1-fetch_metadata.py writes the job list the orchestrator reads. A record of
\* a station's snapshot (a Table3 element) has a CreativeID, an aircheck_id
\* and a title; an element the response lacks (None, or empty text) is 0 or
\* FALSE here. A dict is kept as the list of its values in insertion order.
Records == [creative_id : 0..MaxCreativeId,
            aircheck_id : 0..MaxAircheckId,
            named : BOOLEAN]

RecordLists == UNION {[1..n -> Records] : n \in 0..MaxRecords}

\* The descriptor get_airplay_snapshot builds of a record.
Descriptor(rec) == [creative_id |-> rec.creative_id, aircheck_id |-> rec.aircheck_id]

\* creatives[creative_id] = descriptor
DictPut(d, val) ==
    IF \E i \in 1..Len(d) : d[i].creative_id = val.creative_id
      THEN [i \in 1..Len(d) |->
               IF d[i].creative_id = val.creative_id THEN val ELSE d[i]]
      ELSE Append(d, val)

RECURSIVE Snapshot(_, _)
\* get_airplay_snapshot: the records with a creative_id and a name, keyed by
\* creative_id; list(creatives.values()).
Snapshot(recs, d) ==
    IF recs = <<>>
      THEN d
      ELSE LET rec == Head(recs)
           IN  Snapshot(Tail(recs),
                        IF rec.creative_id # 0 /\ rec.named
                          THEN DictPut(d, Descriptor(rec)) ELSE d)

\* What get_airplay_snapshot returns for a station, over all responses.
Snapshots == {Snapshot(recs, <<>>) : recs \in RecordLists}

RECURSIVE MergeCreatives(_, _)
\* get_airplay_data: all_creatives[creative_id] = creative, for the station's list.
MergeCreatives(all, list) ==
    IF list = <<>> THEN all
                   ELSE MergeCreatives(DictPut(all, Head(list)), Tail(list))

\* filter_new_creatives, given what load_master_creative_ids returned
FilterNewCreatives(list, existing_ids) ==
    SelectSeq(list, LAMBDA c : c.creative_id \notin existing_ids)

RECURSIVE SortedList(_)
\* sorted(list(creative_ids_set))
SortedList(S) ==
    IF S = {}
      THEN <<>>
      ELSE LET m == CHOOSE x \in S : \A y \in S : x <= y
           IN  <<m>> \o SortedList(S \ {m})

\* load_master_creative_ids: set(data['creative_ids']) of the file; the empty
\* set if there is no file or the file is not valid JSON.
LoadMasterCreativeIds(file) ==
    IF file.exists /\ file.valid THEN Range(file.creative_ids) ELSE {}

\* save_master_creative_ids: the file it writes
SaveMasterCreativeIds(creative_ids_set) ==
    [exists |-> TRUE, valid |-> TRUE, creative_ids |-> SortedList(creative_ids_set)]

\* {creative['creative_id'] for creative in new_creatives}
NewIds(new_creatives) == {new_creatives[k].creative_id : k \in 1..Len(new_creatives)}

\* update_master_with_new_creatives, as mutated by saving the new identifiers
\* alone.
UpdateMasterKeepsNewOnly(file, new_creatives) ==
    SaveMasterCreativeIds(NewIds(new_creatives))

\* update_master_with_new_creatives: the master file after it
UpdateMasterWithNewCreatives(file, new_creatives) ==
    SaveMasterCreativeIds(LoadMasterCreativeIds(file) \cup NewIds(new_creatives))

\* The master files a first run may find: none, one the program wrote, or one
\* that is not valid JSON.
MasterFiles ==
    {NoMaster, [exists |-> TRUE, valid |-> FALSE, creative_ids |-> <<>>]}
        \cup {SaveMasterCreativeIds(S) : S \in SUBSET (1..MaxCreativeId)}

\* What the history keeps of a run that has ended.
RunRecord(all, new, ok) == [seen |-> NewIds(all), saved |-> NewIds(new), ok |-> ok]

FetchInit ==
    /\ MainInit(0)
    /\ PhasesIdle
    /\ observe = FALSE
    /\ malformed = {}
    /\ readable = TRUE
    /\ PartIdle
    /\ ListIdle
    /\ f_pc = "fetch"
    /\ f_station = 0
    /\ f_all = <<>>
    /\ f_master \in MasterFiles
    /\ f_new = <<>>
    /\ f_json = NoJson
    /\ f_history = <<>>

\* get_airplay_data: one station's snapshot, whatever the service returns
\* (an empty list if the request fails), merged into all_creatives.
FetchStation ==
    /\ f_pc = "fetch"
    /\ f_station < NumStations
    /\ \E creatives_list \in Snapshots :
           f_all' = MergeCreatives(f_all, creatives_list)
    /\ f_station' = f_station + 1
    /\ UNCHANGED <<f_pc, f_master, f_new, f_json, f_history>>
    /\ UNCHANGED <<mainVars, poolVars, envVars, watchVars, listVars, fileVars>>
    /\ UNCHANGED <<malformed, readable, partVars, listingVars, phaseVars>>

\* get_airplay_data returns all_creatives_list; main: if all_creatives.
FetchReturns ==
    /\ f_pc = "fetch"
    /\ f_station = NumStations
    /\ f_pc' = IF f_all # <<>> THEN "filter" ELSE "done"
    /\ f_history' = IF f_all # <<>> THEN f_history
                                    ELSE Append(f_history, RunRecord(<<>>, <<>>, TRUE))
    /\ UNCHANGED <<f_station, f_all, f_master, f_new, f_json>>
    /\ UNCHANGED <<mainVars, poolVars, envVars, watchVars, listVars, fileVars>>
    /\ UNCHANGED <<malformed, readable, partVars, listingVars, phaseVars>>

\* main: new_creatives = tracker.filter_new_creatives(all_creatives); if new_creatives.
FilterNew ==
    /\ f_pc = "filter"
    /\ f_new' = FilterNewCreatives(f_all, LoadMasterCreativeIds(f_master))
    /\ f_pc' = IF f_new' # <<>> THEN "save" ELSE "done"
    /\ f_history' = IF f_new' # <<>> THEN f_history
                                     ELSE Append(f_history, RunRecord(f_all, <<>>, TRUE))
    /\ UNCHANGED <<f_station, f_all, f_master, f_json>>
    /\ UNCHANGED <<mainVars, poolVars, envVars, watchVars, listVars, fileVars>>
    /\ UNCHANGED <<malformed, readable, partVars, listingVars, phaseVars>>

\* main: save_creatives(new_creatives, ...) and update_master_with_new_creatives.
SaveCreatives ==
    /\ f_pc = "save"
    /\ f_json' = [exists |-> TRUE, creatives |-> f_new]
    /\ f_master' = UpdateMasterWithNewCreatives(f_master, f_new)
    /\ f_pc' = "done"
    /\ f_history' = Append(f_history, RunRecord(f_all, f_new, TRUE))
    /\ UNCHANGED <<f_station, f_all, f_new>>
    /\ UNCHANGED <<mainVars, poolVars, envVars, watchVars, listVars, fileVars>>
    /\ UNCHANGED <<malformed, readable, partVars, listingVars, phaseVars>>

\* The script ends by an exception that nothing catches (a file cannot be
\* opened, the master file holds no JSON object), before it wrote a file: its
\* exit code is 1.
FetchFails ==
    /\ f_pc \in {"fetch", "filter", "save"}
    /\ f_pc' = "failed"
    /\ f_history' = Append(f_history, RunRecord(f_all, <<>>, FALSE))
    /\ UNCHANGED <<f_station, f_all, f_master, f_new, f_json>>
    /\ UNCHANGED <<mainVars, poolVars, envVars, watchVars, listVars, fileVars>>
    /\ UNCHANGED <<malformed, readable, partVars, listingVars, phaseVars>>

\* What a new run of the script starts from: the files of the earlier runs.
NewFetchRun ==
    /\ f_pc' = "fetch"
    /\ f_station' = 0
    /\ f_all' = <<>>
    /\ f_new' = <<>>
    /\ UNCHANGED <<f_master, f_json, f_history>>

\* The script is run again, for the same date range.
FetchAgain ==
    /\ f_pc \in {"done", "failed"}
    /\ Len(f_history) < MaxFetchRuns
    /\ NewFetchRun
    /\ UNCHANGED <<mainVars, poolVars, envVars, watchVars, listVars, fileVars>>
    /\ UNCHANGED <<malformed, readable, partVars, listingVars, phaseVars>>

\* The steps of one run of the script.
FetchRun ==
    \/ FetchStation
    \/ FetchReturns
    \/ FilterNew
    \/ SaveCreatives
    \/ FetchFails

FetchNext ==
    \/ FetchRun
    \/ FetchAgain

FetchSpec == FetchInit /\ [][FetchNext]_vars

\* ------------------------------------------------------ the staging model
\* The end of 2-get_creatives' main(): copy_pcm_to_desktop, cleanup_folders and
\* the closing messages, followed by the start of 3-upload_to_drive's main()
\* for the same date range. A file of the temp folder is a job and a kind:
\* <id>_pcm.wav, <id>.wav (the compressed audio), <id>.out or <id>.ini; the
\* folders considered hold the .out and .ini files of one job at most.
Kinds == {"pcm", "wav", "out", "ini"}
Files == {f \in [id : 1..MaxFiles, kind : Kinds] : f.kind \in {"out", "ini"} => f.id = 1}

\* Path(folder).glob("*_pcm.wav")
GlobPcm(files) == {f \in files : f.kind = "pcm"}

\* Path(folder).glob("*.wav"): it matches <id>_pcm.wav too
GlobWav(files) == {f \in files : f.kind \in {"pcm", "wav"}}

\* The folders main() created (os.makedirs, exist_ok) hold whatever the
\* external tool wrote for the jobs of the run; the summary has been printed.
StageInit ==
    /\ MainInit(0)
    /\ observe = FALSE
    /\ malformed = {}
    /\ readable = TRUE
    /\ PartIdle
    /\ ListIdle
    /\ FetchIdle
    /\ t_exists = TRUE
    /\ t_files \in SUBSET Files
    /\ i_exists = TRUE
    /\ d_files = {}
    /\ s_pc = "copy_start"
    /\ s_todo = {}
    /\ s_copied = 0
    /\ s_deleted = {}
    /\ u_pc = "start"
    /\ r_files = {}
    /\ c_log = <<>>
    /\ UploadRunStart
    /\ MasterIdle

\* copy_pcm_to_desktop up to its loop: destination_folder.mkdir, which may
\* raise (return 0), and the glob (return 0 if it finds nothing).
CopyStart ==
    /\ s_pc = "copy_start"
    /\ \E mkdir_ok \in BOOLEAN :
           /\ s_todo' = IF mkdir_ok THEN GlobPcm(t_files) ELSE {}
           /\ s_pc' = IF s_todo' # {} THEN "copy" ELSE "cleanup"
    /\ UNCHANGED <<d_files, s_copied, s_deleted>>
    /\ UNCHANGED <<downloadVars, folderVars, uploadVars>>

\* One turn of the loop of copy_pcm_to_desktop: shutil.copy2 of a file to
\* <id>.wav either succeeds (copied_count += 1) or raises (failed_count += 1);
\* after the last file the function returns copied_count.
CopyFile ==
    /\ s_pc = "copy"
    /\ \E f \in s_todo, copy_ok \in BOOLEAN :
           /\ d_files' = IF copy_ok THEN d_files \cup {f.id} ELSE d_files
           /\ s_copied' = IF copy_ok THEN s_copied + 1 ELSE s_copied
           /\ s_todo' = s_todo \ {f}
    /\ s_pc' = IF s_todo' = {} THEN "cleanup" ELSE "copy"
    /\ UNCHANGED s_deleted
    /\ UNCHANGED <<downloadVars, folderVars, uploadVars>>

\* The body of cleanup_folders (the same in 2-get_creatives and in
\* 3-upload_to_drive): shutil.rmtree of the INI folder if it exists, then of
\* the temp folder if it exists. An rmtree that raises may have deleted part
\* of the folder; the exception ends the function (the temp folder is not
\* touched if the INI folder's rmtree raised).
DeleteFolders ==
    \E outcome \in {"ok", "ini_raises", "temp_raises"} :
        /\ outcome = "ini_raises" => i_exists
        /\ outcome = "temp_raises" => t_exists
        /\ i_exists' = (i_exists /\ outcome = "ini_raises")
        /\ t_exists' = (t_exists /\ outcome # "ok")
        /\ \E left \in SUBSET t_files :
               /\ outcome = "ok" => left = {}
               /\ outcome = "ini_raises" => left = t_files
               /\ t_files' = left

\* cleanup_folders of 2-get_creatives and the messages that close main().
CleanupFolders ==
    /\ s_pc = "cleanup"
    /\ DeleteFolders
    /\ s_deleted' = s_deleted \cup (t_files \ t_files')
    /\ s_pc' = "completed"
    /\ UNCHANGED <<d_files, s_todo, s_copied>>
    /\ UNCHANGED <<downloadVars, uploadVars>>

\* 3-upload_to_drive's main() up to the check of the temp folder: it returns 1
\* ("Temp folder not found") if os.path.exists(temp_folder) is false. In the
\* staging model Phase 3 is run after Phase 2 has completed.
UploadCheckTemp ==
    /\ u_pc = "start"
    /\ s_pc \in {"off", "completed"}
    /\ u_pc' = IF t_exists THEN "auth" ELSE "not_found"
    /\ u_ret' = IF t_exists THEN u_ret ELSE 1
    /\ UNCHANGED <<r_files, c_log, u_todo, uploadFileVars, uploadCountVars,
                   u_cleaned>>
    /\ UNCHANGED <<downloadVars, folderVars, stageVars>>

StageNext ==
    \/ CopyStart
    \/ CopyFile
    \/ CleanupFolders
    \/ UploadCheckTemp

StageSpec == StageInit /\ [][StageNext]_vars

\* ------------------------------------------------- the master pipeline model
\* master_win.py's main(): it runs Phase 1 (the steps of the metadata fetch
\* model, whose job list file is the expected JSON file) and waits for its
\* exit code, looks for the file, asks the user if it finds none, and runs
\* Phase 2. The pipeline may be run again for the same date range.
MasterInit ==
    /\ MainInit(0)
    /\ observe = FALSE
    /\ malformed = {}
    /\ readable = TRUE
    /\ PartIdle
    /\ ListIdle
    /\ FolderIdle
    /\ StageIdle
    /\ UploadIdle
    /\ f_pc = "fetch"
    /\ f_station = 0
    /\ f_all = <<>>
    /\ f_master \in MasterFiles
    /\ f_new = <<>>
    /\ f_json = NoJson
    /\ f_history = <<>>
    /\ m_pc = "phase1"
    /\ m_exit1 = -1
    /\ m_reported = FALSE
    /\ m_answer = "none"
    /\ m_phase2 = FALSE
    /\ m_ret = 0

\* run_script_with_live_output(FETCH_METADATA_SCRIPT) returns: "if not success"
\* main() returns 1.
Phase1Returns ==
    /\ m_pc = "phase1"
    /\ f_pc \in {"done", "failed"}
    /\ m_exit1' = IF f_pc = "done" THEN 0 ELSE 1
    /\ m_pc' = IF m_exit1' = 0 THEN "check" ELSE "exit"
    /\ m_ret' = IF m_exit1' = 0 THEN m_ret ELSE 1
    /\ UNCHANGED <<m_reported, m_answer, m_phase2>>
    /\ UNCHANGED <<mainVars, poolVars, envVars, watchVars, listVars, fileVars>>
    /\ UNCHANGED <<malformed, readable, partVars, listingVars, fetchVars>>
    /\ UNCHANGED <<folderVars, stageVars, uploadVars>>

\* check_json_exists(expected_json): the file exists and json.load read it.
CheckJsonExists(json_file, parsed) == json_file.exists /\ parsed

\* main: json_exists, json_data = check_json_exists(expected_json), and the
\* branch on it: "NO NEW CREATIVES FOUND" and the question, or "Phase 1
\* completed: N new creatives found".
CheckJson ==
    /\ m_pc = "check"
    /\ \E parsed \in BOOLEAN :
           /\ m_reported' = CheckJsonExists(f_json, parsed)
           /\ m_pc' = IF CheckJsonExists(f_json, parsed) THEN "phase2" ELSE "ask"
    /\ UNCHANGED <<m_exit1, m_answer, m_phase2, m_ret>>
    /\ UNCHANGED <<mainVars, poolVars, envVars, watchVars, listVars, fileVars>>
    /\ UNCHANGED <<malformed, readable, partVars, listingVars, fetchVars>>
    /\ UNCHANGED <<folderVars, stageVars, uploadVars>>

\* The re-download's check, as mutated by going on without the file.
RedownloadAnyway(json_file) == TRUE

\* main: os.path.exists(expected_json), once the user asked for a re-download
RedownloadPossible(json_file) == json_file.exists

\* main: ask_user_confirmation; "if not redownload" return 0; if the file does
\* not exist return 1; else go on to Phase 2.
AskUser ==
    /\ m_pc = "ask"
    /\ \E redownload \in BOOLEAN :
           /\ m_answer' = IF redownload THEN "yes" ELSE "no"
           /\ m_pc' = IF redownload /\ RedownloadPossible(f_json) THEN "phase2" ELSE "exit"
           /\ m_ret' = IF ~redownload THEN 0
                       ELSE IF ~RedownloadPossible(f_json) THEN 1 ELSE m_ret
    /\ UNCHANGED <<m_exit1, m_reported, m_phase2>>
    /\ UNCHANGED <<mainVars, poolVars, envVars, watchVars, listVars, fileVars>>
    /\ UNCHANGED <<malformed, readable, partVars, listingVars, fetchVars>>
    /\ UNCHANGED <<folderVars, stageVars, uploadVars>>

\* run_script_with_live_output(GET_CREATIVES_SCRIPT, ["--json", expected_json])
\* is called: Phase 2 is launched.
LaunchPhase2 ==
    /\ m_pc = "phase2"
    /\ m_phase2' = TRUE
    /\ m_pc' = "phase2_run"
    /\ UNCHANGED <<m_exit1, m_reported, m_answer, m_ret>>
    /\ UNCHANGED <<mainVars, poolVars, envVars, watchVars, listVars, fileVars>>
    /\ UNCHANGED <<malformed, readable, partVars, listingVars, fetchVars>>
    /\ UNCHANGED <<folderVars, stageVars, uploadVars>>

\* Phase 2 ends with some exit code: main() returns 1 "if not success", else
\* prints the pipeline summary and returns 0.
Phase2Returns ==
    /\ m_pc = "phase2_run"
    /\ \E exit_code \in {0, 1} : m_ret' = IF exit_code = 0 THEN 0 ELSE 1
    /\ m_pc' = "exit"
    /\ UNCHANGED <<m_exit1, m_reported, m_answer, m_phase2>>
    /\ UNCHANGED <<mainVars, poolVars, envVars, watchVars, listVars, fileVars>>
    /\ UNCHANGED <<malformed, readable, partVars, listingVars, fetchVars>>
    /\ UNCHANGED <<folderVars, stageVars, uploadVars>>

\* The pipeline is run again for the same date range: Phase 1 is launched.
MasterAgain ==
    /\ m_pc = "exit"
    /\ Len(f_history) < MaxFetchRuns
    /\ NewFetchRun
    /\ m_pc' = "phase1"
    /\ m_exit1' = -1
    /\ m_reported' = FALSE
    /\ m_answer' = "none"
    /\ m_phase2' = FALSE
    /\ m_ret' = 0
    /\ UNCHANGED <<mainVars, poolVars, envVars, watchVars, listVars, fileVars>>
    /\ UNCHANGED <<malformed, readable, partVars, listingVars>>
    /\ UNCHANGED <<folderVars, stageVars, uploadVars>>

MasterStep ==
    \/ Phase1Returns
    \/ CheckJson
    \/ AskUser
    \/ LaunchPhase2
    \/ Phase2Returns
    \/ MasterAgain

MasterNext ==
    \/ FetchRun
    \/ MasterStep

MasterSpec == MasterInit /\ [][MasterNext]_vars

\* ------------------------------------------------------- the upload model
\* 3-upload_to_drive.py's main() for one date range: the check of the temp
\* folder (UploadCheckTemp above), authenticate_drive, cleanup_temp_folder,
\* ensure_folder_structure, upload_folder_contents with upload_file, and the
\* summary with cleanup_folders.
\* Google Drive is the environment: a request succeeds, times out or fails.
UploadInit ==
    /\ MainInit(0)
    /\ observe = FALSE
    /\ malformed = {}
    /\ readable = TRUE
    /\ PartIdle
    /\ ListIdle
    /\ FetchIdle
    /\ StageIdle
    /\ MasterIdle
    /\ t_exists \in BOOLEAN
    /\ t_files \in SUBSET Files
    /\ ~t_exists => t_files = {}
    /\ i_exists \in BOOLEAN
    /\ u_pc = "start"
    /\ r_files \in SUBSET {f \in Files : f.kind = "wav"}
    /\ c_log = <<>>
    /\ UploadRunStart

\* The default of the parameter retries of upload_file.
retries == 3

\* main: service = authenticate_drive(); "if not service" return 1.
Authenticate ==
    /\ u_pc = "auth"
    /\ \E service \in BOOLEAN :
           /\ u_pc' = IF service THEN "cleanup_temp" ELSE "exit"
           /\ u_ret' = IF service THEN u_ret ELSE 1
    /\ UNCHANGED <<r_files, c_log, u_todo, uploadFileVars, uploadCountVars,
                   u_cleaned>>
    /\ UNCHANGED <<downloadVars, folderVars, stageVars>>

\* new_name = pcm_file.name.replace("_pcm.wav", ".wav")
Renamed(f) == [f EXCEPT !.kind = "wav"]

\* regular_wav_files: the *.wav files whose name does not end in _pcm.wav
RegularWav(files) == {f \in GlobWav(files) : f.kind # "pcm"}

\* cleanup_temp_folder on a folder: what it returns without touching the
\* folder, if it does; "clean" if it goes on to the four steps.
CleanupEarlyReturn(exists, files) ==
    IF ~exists THEN 0
    ELSE IF GlobPcm(files) = {} /\ RegularWav(files) # {}
           THEN Cardinality(RegularWav(files))
    ELSE IF GlobPcm(files) = {} THEN 0
    ELSE -1

\* cleanup_temp_folder as a relation: called on the folder files it may leave
\* the folder after and return ready. Steps 1 to 3 unlink the regular .wav,
\* the .out and the .ini files, step 4 renames the PCM files; an unlink or a
\* rename that raises is reported and skipped (kept are the files whose unlink
\* raised, stuck the PCM files whose rename raised). The function returns
\* renamed_count.
CleanupTemp(exists, files, after, ready) ==
    IF CleanupEarlyReturn(exists, files) # -1
      THEN /\ ready = CleanupEarlyReturn(exists, files)
           /\ after = files
      ELSE \E kept \in SUBSET (files \ GlobPcm(files)),
              stuck \in SUBSET GlobPcm(files) :
               /\ after = kept \cup stuck \cup {Renamed(f) : f \in GlobPcm(files) \ stuck}
               /\ ready = Cardinality(GlobPcm(files) \ stuck)

\* main: files_ready = cleanup_temp_folder(temp_folder); "if files_ready == 0"
\* return 1.
CleanupTempFolder ==
    /\ u_pc = "cleanup_temp"
    /\ \E files_ready \in 0..MaxFiles, after \in SUBSET Files :
           /\ CleanupTemp(t_exists, t_files, after, files_ready)
           /\ t_files' = after
           /\ u_pc' = IF files_ready = 0 THEN "exit" ELSE "drive"
           /\ u_ret' = IF files_ready = 0 THEN 1 ELSE u_ret
    /\ UNCHANGED <<t_exists, i_exists>>
    /\ UNCHANGED <<r_files, c_log, u_todo, uploadFileVars, uploadCountVars, u_cleaned>>
    /\ UNCHANGED <<downloadVars, stageVars>>

\* main: date_folder_id = ensure_folder_structure(service, folder_name);
\* "if not date_folder_id" return 1.
EnsureFolderStructure ==
    /\ u_pc = "drive"
    /\ \E date_folder_id \in BOOLEAN :
           /\ u_pc' = IF date_folder_id THEN "glob" ELSE "exit"
           /\ u_ret' = IF date_folder_id THEN u_ret ELSE 1
    /\ UNCHANGED <<r_files, c_log, u_todo, uploadFileVars, uploadCountVars,
                   u_cleaned>>
    /\ UNCHANGED <<downloadVars, folderVars, stageVars>>

\* upload_folder_contents up to its loop: wav_files = glob("*.wav"); it
\* returns 0, 0, 0 if there is none.
UploadGlob ==
    /\ u_pc = "glob"
    /\ u_todo' = GlobWav(t_files)
    /\ u_pc' = IF u_todo' = {} THEN "summary" ELSE "loop"
    /\ UNCHANGED <<u_ret, r_files, c_log, uploadFileVars, uploadCountVars,
                   u_cleaned>>
    /\ UNCHANGED <<downloadVars, folderVars, stageVars>>

\* file_exists_in_folder: the query's answer; False if the query timed out or
\* failed (answered is false).
FileExistsInFolder(f, folder, answered) == answered /\ f \in folder

\* One turn of the loop of upload_folder_contents up to the call of
\* upload_file, for any file still to handle (glob's order is the file
\* system's): a file found in the Drive folder is skipped; for another one
\* upload_file is entered.
NextFile ==
    /\ u_pc = "loop"
    /\ \E f \in u_todo, answered \in BOOLEAN :
           /\ u_todo' = u_todo \ {f}
           /\ IF FileExistsInFolder(f, r_files, answered)
                THEN /\ skipped_count' = skipped_count + 1
                     /\ u_cur' = {}
                     /\ u_attempt' = 0
                     /\ u_sent' = 0
                     /\ u_last' = "none"
                     /\ u_result' = "none"
                     /\ UNCHANGED u_pc
                ELSE /\ u_pc' = "upload_file"
                     /\ u_cur' = {f}
                     /\ u_attempt' = 0
                     /\ u_sent' = 0
                     /\ u_last' = "none"
                     /\ u_result' = "none"
                     /\ UNCHANGED skipped_count
    /\ UNCHANGED <<u_ret, r_files, c_log, success_count, failed_count, u_cleaned>>
    /\ UNCHANGED <<downloadVars, folderVars, stageVars>>

\* upload_file's handlers, as mutated by retrying after any failed attempt.
RetryAfterAnyError(outcome, attempt) == outcome # "ok" /\ attempt < retries - 1

\* upload_file's handlers: "continue" only in except socket.timeout, and only
\* if attempt < retries - 1.
RetryAfter(outcome, attempt) == outcome = "timeout" /\ attempt < retries - 1

\* What upload_file returns after a turn that did not "continue": True after
\* an upload, False from each handler.
UploadFileResult(outcome) == IF outcome = "ok" THEN "True" ELSE "False"

\* One turn (attempt = u_attempt) of the loop of upload_file: if the file is
\* found in the folder it returns True; else the upload is attempted, and it
\* succeeds, times out (the file may have been stored all the same), or raises
\* HttpError or another exception. A turn that "continues" with no turn left
\* would end the loop and the function with None. When upload_file returns,
\* the turn of upload_folder_contents' loop counts the result ("if success").
UploadAttempt ==
    /\ u_pc = "upload_file"
    /\ \E f \in u_cur, answered \in BOOLEAN :
           IF FileExistsInFolder(f, r_files, answered)
             THEN /\ u_last' = "found"
                  /\ u_result' = "True"
                  /\ success_count' = success_count + 1
                  /\ u_pc' = "loop"
                  /\ UNCHANGED <<u_sent, r_files, failed_count>>
             ELSE \E outcome \in {"ok", "timeout", "http", "other"}, stored \in BOOLEAN :
                      /\ outcome = "ok" => stored
                      /\ outcome \in {"http", "other"} => ~stored
                      /\ u_sent' = u_sent + 1
                      /\ u_last' = outcome
                      /\ r_files' = IF stored THEN r_files \cup {f} ELSE r_files
                      /\ IF RetryAfter(outcome, u_attempt)
                           THEN /\ u_result' =
                                       IF u_attempt + 1 < retries THEN "none" ELSE "None"
                                /\ u_pc' = IF u_attempt + 1 < retries
                                             THEN "upload_file" ELSE "loop"
                                /\ failed_count' =
                                       IF u_attempt + 1 < retries
                                         THEN failed_count ELSE failed_count + 1
                                /\ UNCHANGED success_count
                           ELSE /\ u_result' = UploadFileResult(outcome)
                                /\ u_pc' = "loop"
                                /\ success_count' =
                                       IF outcome = "ok"
                                         THEN success_count + 1 ELSE success_count
                                /\ failed_count' =
                                       IF outcome = "ok"
                                         THEN failed_count ELSE failed_count + 1
    /\ u_attempt' = u_attempt + 1
    /\ UNCHANGED <<u_ret, c_log, u_todo, u_cur, skipped_count, u_cleaned>>
    /\ UNCHANGED <<downloadVars, folderVars, stageVars>>

\* upload_folder_contents returns its three counts.
UploadReturns ==
    /\ u_pc = "loop"
    /\ u_todo = {}
    /\ u_pc' = "summary"
    /\ u_cur' = {}
    /\ u_attempt' = 0
    /\ u_sent' = 0
    /\ u_last' = "none"
    /\ u_result' = "none"
    /\ UNCHANGED <<u_ret, r_files, c_log, u_todo, uploadCountVars, u_cleaned>>
    /\ UNCHANGED <<downloadVars, folderVars, stageVars>>

\* main's test before cleanup_folders, as mutated by leaving out the failures.
CleanupIfAnyFile(n_failed, total_files) == total_files > 0

\* main: "if failed_count == 0 and total_files > 0"
UploadSucceeded(n_failed, total_files) == n_failed = 0 /\ total_files > 0

\* main's summary: cleanup_folders and 0 if the upload succeeded; else 1, with
\* the folders preserved if some file failed.
UploadSummary ==
    /\ u_pc = "summary"
    /\ LET total_files == success_count + failed_count + skipped_count
       IN  IF UploadSucceeded(failed_count, total_files)
             THEN /\ DeleteFolders
                  /\ u_cleaned' = TRUE
                  /\ u_ret' = 0
             ELSE /\ u_ret' = 1
                  /\ UNCHANGED <<folderVars, u_cleaned>>
    /\ u_pc' = "exit"
    /\ UNCHANGED <<r_files, c_log, u_todo, uploadFileVars, uploadCountVars>>
    /\ UNCHANGED <<downloadVars, stageVars>>

UploadNext ==
    \/ UploadCheckTemp
    \/ Authenticate
    \/ CleanupTempFolder
    \/ EnsureFolderStructure
    \/ UploadGlob
    \/ NextFile
    \/ UploadAttempt
    \/ UploadReturns
    \/ UploadSummary

UploadSpec == UploadInit /\ [][UploadNext]_vars

\* ------------------------------------------------------ the cleanup model
\* cleanup_temp_folder called again and again on one temp folder, as by
\* successive runs of 3-upload_to_drive that found the folder and
\* authenticated; nothing else touches the folder in between.
CleanInit ==
    /\ MainInit(0)
    /\ observe = FALSE
    /\ malformed = {}
    /\ readable = TRUE
    /\ PartIdle
    /\ ListIdle
    /\ FetchIdle
    /\ StageIdle
    /\ MasterIdle
    /\ UploadIdle
    /\ t_exists \in BOOLEAN
    /\ t_files \in SUBSET Files
    /\ ~t_exists => t_files = {}
    /\ i_exists = FALSE

\* One call of cleanup_temp_folder(temp_folder).
CleanupCall ==
    /\ Len(c_log) < MaxCleanups
    /\ \E files_ready \in 0..MaxFiles, after \in SUBSET Files :
           /\ CleanupTemp(t_exists, t_files, after, files_ready)
           /\ t_files' = after
           /\ c_log' = Append(c_log, [before |-> t_files, after |-> after,
                                      ready |-> files_ready])
    /\ UNCHANGED <<t_exists, i_exists>>
    /\ UNCHANGED <<u_pc, u_ret, r_files, u_todo, uploadFileVars, uploadCountVars,
                   u_cleaned>>
    /\ UNCHANGED <<downloadVars, stageVars>>

CleanNext == CleanupCall

CleanSpec == CleanInit /\ [][CleanNext]_vars

\* ------------------------------------------------------------------ claims
MainSuccessful == UNION {Range(successful[b]) : b \in BatchNums}
WatchersDone == \A b \in 1..total_batches : wpc[b] = "done"
Probed(b) == wpc[b] \in {"extend_successful", "extend_failed", "open", "write", "done"}

C2_NoLostUpdate ==
    (WatchersDone /\ pc \in {"join", "shutdown", "collect", "retry_launch",
                              "retry_run", "retry_probe", "merge"}) =>
        Len(all_successful) + Len(all_failed) = total_count

\* Two watchers recorded at overlapping times: batch 1's success was appended
\* before batch 2's failure, and batch 2's failure before batch 1's failure.
C2_Witness ==
    /\ WatchersDone
    /\ pc = "join"
    /\ all_successful = <<AircheckId(1)>>
    /\ all_failed = <<AircheckId(3), AircheckId(2)>>

\* ceil(n / size)
CeilDiv(n, size) == (n + size - 1) \div size

RECURSIVE SumLen(_)
SumLen(ss) == IF ss = <<>> THEN 0 ELSE Len(Head(ss)) + SumLen(Tail(ss))

\* C3: the split yields ceil(N/B) batches, each of size B except possibly a
\* shorter, non-empty last one; the sizes sum to N and the batches
\* concatenated in order are the list; an empty list yields no batch.
C3_Partition ==
    p_done =>
        /\ Len(p_batches) = CeilDiv(Len(p_list), p_size)
        /\ \A b \in 1..Len(p_batches) :
               /\ b < Len(p_batches) => Len(p_batches[b]) = p_size
               /\ Len(p_batches[b]) >= 1 /\ Len(p_batches[b]) <= p_size
        /\ SumLen(p_batches) = Len(p_list)
        /\ Concat(p_batches) = p_list
        /\ Len(p_list) = 0 => p_batches = <<>>

C3_Witness ==
    /\ p_done
    /\ Len(p_list) = 25
    /\ p_size = 10
    /\ Len(p_batches) = 3
    /\ Len(p_batches[3]) = 5

\* C4: a job whose artifact appeared before its batch's timeout elapsed is
\* recorded succeeded by its batch's probe, and a job whose artifact appeared
\* after the timeout is recorded failed by it.
C4_BeforeTimeoutSucceeds ==
    \A b \in 1..total_batches : Probed(b) =>
        \A id \in Range(batches[b]) :
            /\ id \in artBeforeTimeout => id \in Range(successful[b])
            /\ id \in art \ artBeforeTimeout => id \in Range(failed[b])

C6_SummaryReached == <>(pc = "done")

\* The BATCH marks of the file, in file order.
SectionsOf(file) == SelectSeq(file, LAMBDA m : m[1] = "BATCH")

AllPrompt == Range(creatives) \subseteq (artBeforeReturn \cap artBeforeTimeout)

\* C7: when every artifact appeared at once (before its launch returned and
\* before the timeout), the finished run has recorded every job succeeded,
\* retried none, and the summary file holds one section per batch.
C7_AllSucceedReportComplete ==
    (pc = "done" /\ AllPrompt) =>
        /\ Range(all_successful) = Range(creatives)
        /\ Len(all_successful) = total_count
        /\ \A id \in AllIds : retry_count[id] = 0
        /\ Len(SectionsOf(summary_file)) = total_batches
        /\ \A b \in 1..total_batches : Count(summary_file, BatchMark(b)) = 1

\* C8: in a finished run a job whose artifact never appeared was recorded
\* failed by the main pass, got exactly one retry launch, is in the list the
\* retry pass returned and in the failed_ads file.
C8_NeverAppearsIsTerminal ==
    pc = "done" =>
        \A id \in Range(creatives) \ art :
            /\ id \in Range(all_failed)
            /\ retry_count[id] = 1
            /\ id \in Range(still_failed)
            /\ failed_file.exists
            /\ id \in Range(failed_file.creatives)

C8_Witness ==
    /\ pc = "done"
    /\ creatives = <<AircheckId(1)>>
    /\ art = {}
    /\ retry_count[AircheckId(1)] = 1

IsPrefix(s, t) == Len(s) <= Len(t) /\ SubSeq(t, 1, Len(s)) = s

InBatchOrder(file) ==
    LET secs == SectionsOf(file)
    IN  \A i, j \in 1..Len(secs) : i < j => secs[i][2] < secs[j][2]

\* C9: the summary file only grows at its end, and its sections are in
\* increasing batch number.
C9_AppendOnlyInOrder ==
    [][IsPrefix(summary_file, summary_file') /\ InBatchOrder(summary_file')]_vars

\* A section's first line is directly followed by the rest of that section.
SectionsWhole(file) ==
    \A k \in 1..Len(file) :
        (file[k][1] = "BATCH" /\ k < Len(file)) => file[k + 1] = EndMark(file[k][2])

\* C10: at most one watcher is inside update_summary_file at a time, and no
\* section in the file is cut by the marks of another section.
C10_WritesSerialized ==
    /\ Cardinality({b \in BatchNums : wpc[b] = "write"}) <= 1
    /\ SectionsWhole(summary_file)

AfterJoin == pc \in {"shutdown", "collect", "retry_launch", "retry_run",
                     "retry_probe", "merge", "summary", "done"}

\* C11: main never waits for a batch's watcher before the last batch is
\* submitted: when the stagger sleep is all that is left of batch i the move
\* to batch i+1 is possible, and a submission of a later batch is possible,
\* whatever the watchers of the earlier batches are doing.
C11_NoWaitBetweenBatches ==
    /\ pc = "sleep" => ENABLED StaggerSleep
    /\ pc = "submit" => ENABLED (Submit \/ StartWatcher)

\* A job of batch 2 has been submitted while batch 1's watcher still waits
\* and nothing of batch 1 is recorded.
C11_Witness ==
    /\ pc = "submit"
    /\ batch_num = 2
    /\ sub_k = 1
    /\ proc[batches[2][1]] # "idle"
    /\ wpc[1] = "wait"
    /\ all_successful = <<>>
    /\ all_failed = <<>>

\* C12: once main is past the join every watcher has ended and every job of
\* the list is recorded in all_successful or all_failed; while a watcher has
\* not ended no retry launch was made, the failure list was not read and no
\* summary was printed.
C12_JoinAll ==
    /\ AfterJoin =>
           /\ WatchersDone
           /\ Range(creatives) \subseteq Range(all_successful) \cup Range(all_failed)
    /\ ~WatchersDone =>
           /\ \A id \in AllIds : retry_count[id] = 0
           /\ failed_creatives = <<>>
           /\ printed = <<>>

\* Main reads the failures of two batches whose watchers both recorded.
C12_Witness ==
    /\ pc = "collect"
    /\ total_batches = 2
    /\ WatchersDone
    /\ all_failed # <<>>
    /\ all_successful # <<>>

\* C13: a probe of the main pass puts a job of its batch in successful if
\* the artifact exists at that moment and in failed otherwise, and the probe
\* of the retry pass puts the retried job in retry_successful if the artifact
\* exists at that moment and in still_failed otherwise; nothing else is read.
C13_ProbeDecides ==
    [][/\ \A b \in BatchNums :
              (wpc[b] = "probe" /\ wpc'[b] # "probe") =>
                  \A id \in Range(batches[b]) :
                      /\ id \in Range(successful'[b]) <=> id \in art
                      /\ id \in Range(failed'[b]) <=> id \notin art
       /\ (pc = "retry_probe" /\ pc' # "retry_probe") =>
              LET id == failed_creatives[retry_i]
              IN  /\ id \in Range(retry_successful') <=> id \in art
                  /\ id \in Range(still_failed') <=> id \notin art]_vars

\* The outcome went against the launch's result both ways: a job whose
\* launches returned the id then None succeeded on retry, and a job whose
\* retry launch returned the id is still failed.
C13_Witness ==
    /\ \E id \in Range(creatives) :
           /\ proc[id] = "done_id"
           /\ id \in Range(all_failed)
           /\ rproc[id] = "done_none"
           /\ id \in Range(retry_successful)
    /\ \E id \in Range(creatives) :
           /\ rproc[id] = "done_id"
           /\ id \in Range(still_failed)

LaunchFailed(id) == proc[id] = "done_none"
SomeRunning == \E id \in AllIds : proc[id] = "running" \/ rproc[id] = "running"

\* What a launch that could not be started leaves intact.
LaunchFailureContained ==
    /\ \A id \in Range(creatives) :
           (LaunchFailed(id) /\ Probed(BatchOf(id))) => id \in Range(failed[BatchOf(id)])
    /\ AfterJoin =>
           \A id \in Range(creatives) :
               /\ proc[id] # "idle"
               /\ id \in Range(successful[BatchOf(id)]) \cup Range(failed[BatchOf(id)])
    /\ pc \in {"merge", "summary", "done"} =>
           \A id \in Range(creatives) : LaunchFailed(id) => retry_count[id] = 1

C15_MalformedRejected ==
    malformed # {} =>
        /\ pc # "aborted"
        /\ pc = "done" =>
               /\ Range(creatives) \ malformed
                      \subseteq Range(all_successful) \cup Range(still_failed)
               /\ \A id \in malformed : proc[id] = "idle"

\* C16: the saved job list has no descriptor without an aircheck_id and no
\* two descriptors with the same aircheck_id.
C16_IdsNonEmptyUnique ==
    f_json.exists =>
        LET list == f_json.creatives
        IN  /\ \A i \in 1..Len(list) : list[i].aircheck_id # 0
            /\ \A i, j \in 1..Len(list) :
                   i # j => list[i].aircheck_id # list[j].aircheck_id

C19_EveryFailureListed == l_done => l_listed = l_failed

\* C20: when the run has finished, a failed_ads file exists exactly if
\* still_failed is not empty; its creatives are still_failed in the same
\* order, its failed_count is their number, and none of them succeeded in
\* the main pass or on retry.
C20_FailedRecord ==
    pc = "done" =>
        /\ failed_file.exists <=> still_failed # <<>>
        /\ failed_file.creatives = still_failed
        /\ failed_file.failed_count = Len(still_failed)
        /\ Range(failed_file.creatives) \cap Range(all_successful) = {}
        /\ Range(failed_file.creatives) \cap (MainSuccessful \cup Range(retry_successful)) = {}

\* A record of two jobs, not in list order in all_failed, beside a job that
\* succeeded on retry.
C20_Witness ==
    /\ pc = "done"
    /\ failed_file.exists
    /\ failed_file.failed_count = 2
    /\ failed_file.creatives = <<AircheckId(1), AircheckId(3)>>
    /\ all_failed = <<AircheckId(3), AircheckId(1), AircheckId(2)>>
    /\ retry_successful = <<AircheckId(2)>>

AnyLaunched == \E id \in AllIds : launch_count[id] > 0 \/ retry_count[id] > 0

InFlight(b) == {id \in Range(batches[b]) : proc[id] = "running"}

AfterShutdown == pc \in {"collect", "retry_launch", "retry_run", "retry_probe",
                         "merge", "summary", "done"}

\* C23: the pools are shut down after the join of the watchers, and from
\* then on (the retry pass included) no launch call of the main pass is
\* executing.
C23_PoolsShutDown ==
    /\ pc = "shutdown" => WatchersDone
    /\ AfterShutdown => \A id \in AllIds : proc[id] # "running"

\* The retry pass starts on a job whose launch outlived its batch's timeout.
C23_Witness ==
    /\ pc = "retry_launch"
    /\ timedOut[1]
    /\ proc[creatives[1]] = "done_id"
    /\ creatives[1] \in Range(failed[1])
    /\ creatives[1] \notin art

\* C24: main moves to the next batch only out of the stagger sleep, it goes
\* to sleep only after a batch that is not the last, and after the last
\* batch it goes to the join.
C24_StaggerBetweenBatches ==
    [][/\ (batch_num >= 1 /\ batch_num' # batch_num) =>
              pc = "sleep" /\ batch_num' = batch_num + 1
       /\ pc' = "sleep" => batch_num' < total_batches
       /\ (pc = "submit" /\ pc' # "submit") =>
              pc' = IF batch_num < total_batches THEN "sleep" ELSE "join"]_vars

\* Main is at the join right after the last of two batches, having slept once.
C24_Witness ==
    /\ pc = "join"
    /\ total_batches = 2
    /\ batch_num = 2
    /\ wpc[2] = "wait"

\* C25: the jobs that have been submitted are the first ones of the job list
\* (list order within a batch, batches in increasing number).
C25_SubmissionInListOrder ==
    \A k \in 1..Len(creatives) :
        launch_count[creatives[k]] > 0 =>
            \A j \in 1..(k - 1) : launch_count[creatives[j]] > 0

\* Completion is not in list order: the last job is done and has its
\* artifact while the first one is still running without one.
C25_Witness ==
    /\ Len(creatives) = 3
    /\ proc[creatives[1]] = "running"
    /\ creatives[1] \notin art
    /\ proc[creatives[3]] = "done_id"
    /\ creatives[3] \in art

RetryOver == pc \in {"merge", "summary", "done"}

\* C27: after the retry pass still_failed is failed_creatives without the
\* retry successes, in the same order; every retry success has its artifact;
\* and with no failed job nothing is launched and the result is empty.
C27_RetryReturnsStillFailed ==
    /\ RetryOver =>
           /\ still_failed =
                  SelectSeq(failed_creatives, LAMBDA id : id \notin Range(retry_successful))
           /\ Range(retry_successful) \subseteq Range(failed_creatives) \cap art
    /\ failed_creatives = <<>> =>
           /\ still_failed = <<>>
           /\ \A id \in AllIds : retry_count[id] = 0

C27_Witness ==
    /\ pc = "merge"
    /\ failed_creatives = <<AircheckId(1), AircheckId(2), AircheckId(3)>>
    /\ still_failed = <<AircheckId(1), AircheckId(3)>>

\* C28: in the retry pass the jobs before the current one were launched
\* once, have returned and are probed; the jobs after it are untouched; the
\* current one is launched before it is probed, and probed only after its
\* launch call has returned.
C28_RetryInOrder ==
    pc \in {"retry_launch", "retry_run", "retry_probe"} =>
        \A k \in 1..Len(failed_creatives) :
            LET id == failed_creatives[k]
                probed == id \in Range(retry_successful) \cup Range(still_failed)
            IN  /\ k < retry_i =>
                       /\ retry_count[id] = 1
                       /\ rproc[id] \in {"done_id", "done_none"}
                       /\ probed
                /\ k > retry_i => retry_count[id] = 0 /\ rproc[id] = "idle" /\ ~probed
                /\ k = retry_i =>
                       /\ ~probed
                       /\ pc = "retry_launch" => retry_count[id] = 0
                       /\ pc # "retry_launch" => retry_count[id] = 1
                       /\ pc = "retry_probe" => rproc[id] \in {"done_id", "done_none"}

\* The second failed job is in its launch, the first one is probed and the
\* third one untouched.
C28_Witness ==
    /\ pc = "retry_run"
    /\ retry_i = 2
    /\ Len(failed_creatives) = 3
    /\ rproc[failed_creatives[2]] = "running"
    /\ failed_creatives[1] \in Range(still_failed)

\* C29: when the metadata file cannot be read the run ends in its error
\* state: no .ini file is written, nothing is launched or retried, and no
\* failed_ads file and no summary file is written.
C29_UnreadableListNoEffects ==
    ~readable =>
        /\ pc \in {"load", "error"}
        /\ \A id \in AllIds :
               /\ ini_writes[id] = 0
               /\ launch_count[id] = 0
               /\ retry_count[id] = 0
        /\ ~failed_file.exists
        /\ summary_file = <<>>

C29_Witness ==
    /\ ~readable
    /\ pc = "error"
    /\ Len(creatives) = 3

C31_DeletedOnlyIfCopied == \A f \in GlobPcm(s_deleted) : f.id \in d_files

\* C32: once Phase 2 has completed, the temp folder that Phase 3 requires
\* exists, and Phase 3 run next does not stop with "Temp folder not found".
C32_StagedForUpload == s_pc = "completed" => (t_exists /\ u_pc # "not_found")

\* What Phase 1 of the current run of the pipeline saved as new.
SavedThisRun == IF f_history = <<>> THEN {} ELSE f_history[Len(f_history)].saved

\* C33: Phase 2 is launched only after Phase 1 exited with code 0 and with the
\* expected JSON file on disk; if Phase 1 failed the pipeline returns 1
\* without launching Phase 2, and if the user declined the re-download it
\* returns 0 without launching Phase 2.
C33_Phase2AfterPhase1 ==
    /\ m_pc \in {"phase2", "phase2_run"} \/ m_phase2 => m_exit1 = 0 /\ f_json.exists
    /\ m_pc = "exit" /\ m_exit1 = 1 => m_ret = 1 /\ ~m_phase2
    /\ m_pc = "exit" /\ m_answer = "no" => m_ret = 0 /\ ~m_phase2

\* The user asked for the re-download of a file left unreadable for the check,
\* and Phase 2 has been launched.
C33_Witness ==
    /\ m_phase2
    /\ m_answer = "yes"
    /\ m_exit1 = 0
    /\ f_json.exists

C35_UploadFileBounded ==
    /\ u_sent <= retries
    /\ u_attempt <= retries
    /\ u_pc = "upload_file" =>
           /\ u_attempt < retries
           /\ u_sent = u_attempt
           /\ u_attempt > 0 => u_last = "timeout"
    /\ (u_pc = "loop" /\ u_cur # {}) =>
           /\ u_result \in {"True", "False"}
           /\ u_result = "True" <=> u_last \in {"ok", "found"}
           /\ u_last = "timeout" => u_attempt = retries
           /\ u_attempt > 1 => u_sent >= u_attempt - 1
           /\ u_sent = IF u_last = "found" THEN u_attempt - 1 ELSE u_attempt

\* upload_file has returned False after its third attempt timed out.
C35_Witness ==
    /\ u_pc = "loop"
    /\ u_cur # {}
    /\ u_result = "False"
    /\ u_last = "timeout"
    /\ u_sent = retries

\* C36: cleanup_folders has run only if no file failed and at least one file
\* was uploaded or skipped; a run in which some file failed ends with exit
\* code 1 and without cleanup_folders, and its summary leaves the INI folder
\* and the temp folder as they are.
C36_CleanupAfterSuccess ==
    /\ [](u_cleaned => failed_count = 0 /\ success_count + skipped_count > 0)
    /\ [](u_pc = "exit" /\ failed_count > 0 => u_ret = 1 /\ ~u_cleaned)
    /\ [][u_pc = "summary" /\ failed_count > 0 => UNCHANGED folderVars]_vars

\* A run uploaded one file, skipped another and then deleted both folders.
C36_Witness ==
    /\ u_pc = "exit"
    /\ u_cleaned
    /\ u_ret = 0
    /\ success_count > 0
    /\ skipped_count > 0
    /\ ~t_exists
    /\ ~i_exists

\* C37: a further call of cleanup_temp_folder on the folder an earlier call
\* left deletes and renames nothing and returns the count the earlier call
\* returned.
C37_CleanupIdempotent ==
    \A k \in 2..Len(c_log) :
        /\ c_log[k].after = c_log[k].before
        /\ c_log[k].ready = c_log[k - 1].ready

=============================================================================
